---- MODULE Spec2Model ----
(***************************************************************************)
(* getSitemapUrls(xmlUrl, fromDate) of src/index.js as a state machine.    *)
(*                                                                         *)
(* Every JavaScript value the function handles is a record with a field k  *)
(* (its kind).  Numbers are exact integers hi * 10^6 + lo with lo in       *)
(* 0 .. 10^6 - 1, so that the epoch threshold 10^12 and the factor 1000    *)
(* of toTs keep their real values.                                         *)
(***************************************************************************)
EXTENDS Integers, Sequences, FiniteSets, TLC

VARIABLES
  xmlUrl,    \* the first argument
  fromDate,  \* the second argument
  fromTs,    \* the lower bound computed from fromDate, Null for none
  queue,     \* the work queue (a stack: push and pop at the end)
  visited,   \* the strings already dequeued and fetched
  results,   \* the result list
  seen,      \* the dedup set of the result list
  current,   \* the string popped last
  res,       \* the response whose body is awaited
  pc,        \* "start", "loop", "fetch" (await fetch), "body" (await arrayBuffer), "done", "rejected"
  error,     \* what the call rejected with
  fetched,   \* history: the arguments of the fetch calls, in order
  served,    \* history: the response the transport gave for each URL requested
  parsed,    \* history: the documents that reached the dialect dispatch, with their base
  acc,       \* history: the candidates accepted, with the entry each came from
  calls      \* history: the calls that returned before this one, each with its lower bound, results and fetches

vars == <<xmlUrl, fromDate, fromTs, queue, visited, results, seen, current, res, pc, error, fetched, served, parsed, acc, calls>>

----------------------------------------------------------------------------
(* Numbers and timestamps *)

NaN == [k |-> "nan"]

Null == [k |-> "null"]

Absent == [k |-> "absent"]

EmptyStr == [k |-> "empty"]

Num(hi, lo) == [k |-> "num", hi |-> hi, lo |-> lo]

isFinite(t) == t.k = "num"

\* v < 1e12 (false for NaN)
Below1e12(v) == v.k = "num" /\ v.hi < 1000000

\* v * 1000
Times1000(v) == Num(v.hi * 1000 + ((v.lo * 1000) \div 1000000), (v.lo * 1000) % 1000000)

\* a >= b on finite numbers
Geq(a, b) == a.hi > b.hi \/ (a.hi = b.hi /\ a.lo >= b.lo)

\* n < 1e12 ? n * 1000 : n
EpochScale(n) == IF Below1e12(n) THEN Times1000(n) ELSE n

----------------------------------------------------------------------------
(* Raw date values: what a caller passes as fromDate and what the XML       *)
(* parser leaves in a date field.  A string carries the facts the regular   *)
(* expressions of toTs test (all digits, sign, length, the unzoned shape)   *)
(* and what Date.parse returns for it.                                      *)

DateObj(t) == [k |-> "dateobj", time |-> t]

Number(n) == [k |-> "number", n |-> n]

\* an all-digit string (optional sign) of len digits whose value, Number(s), is n
DigitStr(neg, len, n) == [k |-> "str", shape |-> "digits", neg |-> neg, len |-> len, n |-> n, dp |-> NaN]

\* "YYYY-MM-DD HH:mm:ss" or "YYYY-MM-DDTHH:mm:ss", no zone; utc is Date.parse of it with "Z" appended
UnzonedStr(utc) == [k |-> "str", shape |-> "unzoned", neg |-> FALSE, len |-> 0, n |-> NaN, dp |-> utc]

\* any other string; dp is Date.parse of it (ISO-8601 with zone, RFC822, W3C-DTF, or NaN)
OtherStr(dp) == [k |-> "str", shape |-> "other", neg |-> FALSE, len |-> 0, n |-> NaN, dp |-> dp]

\* days since 1970-01-01 of the civil date y-m-d
DaysFromCivil(y, m, d) ==
  LET yy == IF m <= 2 THEN y - 1 ELSE y
      era == yy \div 400
      yoe == yy - era * 400
      doy == ((153 * (IF m > 2 THEN m - 3 ELSE m + 9) + 2) \div 5) + d - 1
      doe == yoe * 365 + (yoe \div 4) - (yoe \div 100) + doy
  IN era * 146097 + doe - 719468

\* Date.parse(`${y}-${m}-${d}T00:00:00Z`) for the 8-digit string whose value is n
Ymd8(n) ==
  LET y == n.hi * 100 + (n.lo \div 10000)
      m == (n.lo \div 100) % 100
      d == n.lo % 100
      days == DaysFromCivil(y, m, d)
  IN IF m < 1 \/ m > 12 \/ d < 1 \/ d > 31 THEN NaN
     ELSE Num(days * 86 + ((days * 4) \div 10), ((days * 4) % 10) * 100000)

toTs(v) ==
  IF v.k \in {"absent", "null", "empty"} THEN NaN
  ELSE IF v.k = "dateobj" THEN v.time
  ELSE IF v.k = "number" THEN EpochScale(v.n)
  ELSE IF v.k # "str" THEN NaN
  ELSE IF v.shape = "digits" /\ v.len >= 9 /\ v.len <= 13 THEN EpochScale(v.n)
  ELSE IF v.shape = "digits" /\ ~v.neg /\ v.len = 8 /\ isFinite(Ymd8(v.n)) THEN Ymd8(v.n)
  ELSE IF v.shape = "unzoned" /\ isFinite(v.dp) THEN v.dp
  ELSE IF isFinite(v.dp) THEN v.dp ELSE NaN

RECURSIVE firstTs(_)
firstTs(vals) ==
  IF vals = <<>> THEN NaN
  ELSE IF isFinite(toTs(Head(vals))) THEN toTs(Head(vals))
  ELSE firstTs(Tail(vals))

\* mutant: the bound is taken as an upper bound
includeByFromBefore(ts, from) == IF from.k = "null" THEN TRUE ELSE isFinite(ts) /\ Geq(from, ts)

includeByFrom(ts, from) == IF from.k = "null" THEN TRUE ELSE isFinite(ts) /\ Geq(ts, from)

----------------------------------------------------------------------------
(* URL strings.  AbsUrl(h, p, TRUE) is an absolute URL in the form          *)
(* URL.prototype.toString prints it; AbsUrl(h, p, FALSE) is another         *)
(* spelling of the same URL (upper-case scheme or host, default port, ...). *)
(* RelRef(p) is a relative reference, BadRef a string new URL() rejects.    *)

AbsUrl(host, path, norm) == [k |-> "url", host |-> host, path |-> path, norm |-> norm]

RelRef(path) == [k |-> "rel", path |-> path]

BadRef == [k |-> "bad"]

Throw == [k |-> "throw"]

\* JavaScript truthiness of a value read from the parsed tree
Truthy(v) == v.k \notin {"absent", "null", "empty"}

\* new URL(s).toString(): parse an absolute URL string and print it
Normalize(s) == IF s.k = "url" THEN AbsUrl(s.host, s.path, TRUE) ELSE Throw

\* new URL(String(ref).trim(), base).toString()
Resolve(ref, base) ==
  IF base.k # "url" THEN Throw
  ELSE IF ref.k = "url" THEN AbsUrl(ref.host, ref.path, TRUE)
  ELSE IF ref.k = "rel" THEN AbsUrl(base.host, ref.path, TRUE)
  ELSE IF ref.k = "empty" THEN AbsUrl(base.host, base.path, TRUE)
  ELSE Throw

----------------------------------------------------------------------------
(* The loop's accumulator while one document is processed: the queue, the   *)
(* result list and its dedup set, and acc, a history of every candidate the *)
(* code accepted (resolved, past the date filter, pushed unless already in  *)
(* seen), with the entry it came from.                                      *)

Acc(q, r, s, a) == [queue |-> q, results |-> r, seen |-> s, acc |-> a]

\* history only: candidate abs of entry it was accepted
Note(st, abs, base, it, via) == [st EXCEPT !.acc = @ \cup {[it |-> it, base |-> base, url |-> abs, via |-> via]}]

\* mutant: results.push(abs) without the seen test
PushResultNoDedup(st, abs) == [st EXCEPT !.results = Append(@, abs), !.seen = @ \cup {abs}]

\* mutant: a URL found again is moved to the end of the list
PushResultMoveToEnd(st, abs) == [st EXCEPT !.results = Append(SelectSeq(@, LAMBDA u : u # abs), abs), !.seen = @ \cup {abs}]

\* if (!seen.has(abs)) { seen.add(abs); results.push(abs); }
PushResult(st, abs) == IF abs \in st.seen THEN st ELSE [st EXCEPT !.results = Append(@, abs), !.seen = @ \cup {abs}]

\* try { abs = new URL(ref, base).toString(); push } catch {}
Emit(st, ref, base, it, via) ==
  LET abs == Resolve(ref, base)
  IN IF abs.k = "throw" THEN st ELSE Note(PushResult(st, abs), abs, base, it, via)

\* a || b || c over a sequence of values: the first truthy one, else the last
RECURSIVE OrChain(_)
OrChain(vals) == IF Len(vals) = 1 \/ Truthy(Head(vals)) THEN Head(vals) ELSE OrChain(Tail(vals))

\* a ?? b ?? c over a sequence of values: the first that is not null/undefined, else the last
RECURSIVE NullishChain(_)
NullishChain(vals) == IF Len(vals) = 1 \/ Head(vals).k \notin {"absent", "null"} THEN Head(vals) ELSE NullishChain(Tail(vals))

----------------------------------------------------------------------------
(* 1) sitemap index: entries [loc, link, url], url an object with a loc *)

Obj(loc) == [k |-> "obj", loc |-> loc]

SitemapLoc(it) == IF Truthy(it.loc) THEN it.loc ELSE IF Truthy(it.link) THEN it.link ELSE IF Truthy(it.url) THEN it.url.loc ELSE it.url

\* mutant: the child is pushed without the visited test
SitemapPushNoVisitedCheck(st, it, base, vis) ==
  LET loc == SitemapLoc(it)
      abs == Resolve(loc, base)
  IN IF ~Truthy(loc) THEN st
     ELSE IF abs.k = "throw" THEN st
     ELSE [st EXCEPT !.queue = Append(@, abs)]

SitemapPush(st, it, base, vis) ==
  LET loc == SitemapLoc(it)
      abs == Resolve(loc, base)
  IN IF ~Truthy(loc) THEN st
     ELSE IF abs.k = "throw" THEN st
     ELSE IF abs \in vis THEN st
     ELSE [st EXCEPT !.queue = Append(@, abs)]

\* mutant: the loop over the entries stops after the first one
SitemapIndexFirstOnly(st, arr, base, vis) == IF arr = <<>> THEN st ELSE SitemapPush(st, Head(arr), base, vis)

RECURSIVE SitemapIndex(_, _, _, _)
SitemapIndex(st, arr, base, vis) ==
  IF arr = <<>> THEN st ELSE SitemapIndex(SitemapPush(st, Head(arr), base, vis), Tail(arr), base, vis)

----------------------------------------------------------------------------
(* 2) urlset: entries [loc, lastmod, news, video, xh]; lastmod, news and    *)
(* video are the candidate date fields in the order the code reads them, xh *)
(* the alternate links.                                                     *)

Rel(v) == [k |-> "text", v |-> v]

LinkObj(rel, href) == [k |-> "obj", rel |-> rel, href |-> href]

Arr(items) == [k |-> "arr", items |-> items]

toLowerCase(v) == IF v = "ALTERNATE" THEN "alternate" ELSE v

\* Array.isArray(xh) ? xh : xh ? [xh] : []
LinksOf(xh) == IF xh.k = "arr" THEN xh.items ELSE IF Truthy(xh) THEN <<xh>> ELSE <<>>

\* const urlTs = firstTs(lastmod, newsTs, videoTs), newsTs and videoTs numbers
UrlTs(it) == firstTs(<<NullishChain(it.lastmod), Number(firstTs(it.news)), Number(firstTs(it.video))>>)

UrlInclude(it, from) == IF from.k = "null" THEN Truthy(it.loc) ELSE Truthy(it.loc) /\ includeByFrom(UrlTs(it), from)

\* one alternate link of an included entry
UrlAlternate(st, l, it, base, from) ==
  LET href == IF l.k = "obj" THEN NullishChain(<<l.href, Null>>) ELSE Null
      rel == IF l.k # "obj" \/ l.rel.k \in {"absent", "null"} THEN "alternate" ELSE IF l.rel.k = "text" THEN toLowerCase(l.rel.v) ELSE ""
      absAlt == Resolve(href, base)
  IN IF ~Truthy(href) \/ rel # "alternate" THEN st
     ELSE IF absAlt.k = "throw" THEN st
     ELSE IF absAlt \in st.seen THEN Note(st, absAlt, base, it, "alt")
     ELSE IF includeByFrom(UrlTs(it), from) THEN Emit(st, href, base, it, "alt")
     ELSE st

RECURSIVE UrlAlternates(_, _, _, _, _)
UrlAlternates(st, links, it, base, from) ==
  IF links = <<>> THEN st ELSE UrlAlternates(UrlAlternate(st, Head(links), it, base, from), Tail(links), it, base, from)

UrlEntry(st, it, base, from) ==
  IF ~UrlInclude(it, from) THEN st
  ELSE UrlAlternates(Emit(st, it.loc, base, it, "loc"), LinksOf(it.xh), it, base, from)

RECURSIVE UrlSet(_, _, _, _)
UrlSet(st, arr, base, from) ==
  IF arr = <<>> THEN st ELSE UrlSet(UrlEntry(st, Head(arr), base, from), Tail(arr), base, from)

----------------------------------------------------------------------------
(* 3) RSS 2.0: items [link, enclosure, guid, dates] *)

Enclosure(url) == [k |-> "obj", url |-> url]

RssLink(it) == OrChain(<<it.link, IF Truthy(it.enclosure) THEN it.enclosure.url ELSE Absent, it.guid>>)

\* shared by the RSS, Atom and RDF loops: if (!link) continue; if (!includeByFrom(ts, fromTs)) continue; push
FeedEntry(st, link, ts, it, base, from) ==
  IF ~Truthy(link) THEN st
  ELSE IF ~includeByFrom(ts, from) THEN st
  ELSE Emit(st, link, base, it, "link")

RECURSIVE Rss(_, _, _, _)
Rss(st, items, base, from) ==
  IF items = <<>> THEN st
  ELSE Rss(FeedEntry(st, RssLink(Head(items)), firstTs(Head(items).dates), Head(items), base, from), Tail(items), base, from)

----------------------------------------------------------------------------
(* 4) Atom: entries [link, dates]; link is a string, a link object, or an   *)
(* array of link objects                                                    *)

\* mutant: no break, the last alternate link wins
RECURSIVE AtomChooseNoBreak(_, _)
AtomChooseNoBreak(L, chosen) ==
  IF L = <<>> THEN chosen
  ELSE LET l == Head(L)
           rel == IF l.k = "obj" /\ Truthy(l.rel) THEN toLowerCase(l.rel.v) ELSE "alternate"
           href == IF l.k = "obj" /\ Truthy(l.href) THEN l.href ELSE Absent
           c1 == IF ~Truthy(chosen) THEN href ELSE chosen
       IN AtomChooseNoBreak(Tail(L), IF rel = "alternate" /\ Truthy(href) THEN href ELSE c1)

\* for (const l of L) { ... if (!chosen) chosen = href; if (rel === "alternate" && href) { chosen = href; break; } }
RECURSIVE AtomChoose(_, _)
AtomChoose(L, chosen) ==
  IF L = <<>> THEN chosen
  ELSE LET l == Head(L)
           rel == IF l.k = "obj" /\ Truthy(l.rel) THEN toLowerCase(l.rel.v) ELSE "alternate"
           href == IF l.k = "obj" /\ Truthy(l.href) THEN l.href ELSE Absent
           c1 == IF ~Truthy(chosen) THEN href ELSE chosen
       IN IF rel = "alternate" /\ Truthy(href) THEN href ELSE AtomChoose(Tail(L), c1)

AtomLink(it) ==
  IF it.link.k = "arr" THEN AtomChoose(it.link.items, Null)
  ELSE IF it.link.k = "obj" THEN (IF Truthy(it.link.href) THEN it.link.href ELSE Absent)
  ELSE IF it.link.k \in {"url", "rel", "bad", "empty"} THEN it.link
  ELSE Null

RECURSIVE Atom(_, _, _, _)
Atom(st, entries, base, from) ==
  IF entries = <<>> THEN st
  ELSE Atom(FeedEntry(st, AtomLink(Head(entries)), firstTs(Head(entries).dates), Head(entries), base, from), Tail(entries), base, from)

----------------------------------------------------------------------------
(* 5) RDF / RSS 1.0: items [link, rsslink, about, guid, dates] *)

RdfLink(it) == OrChain(<<it.link, it.rsslink, it.about, it.guid>>)

RECURSIVE Rdf(_, _, _, _)
Rdf(st, items, base, from) ==
  IF items = <<>> THEN st
  ELSE Rdf(FeedEntry(st, RdfLink(Head(items)), firstTs(Head(items).dates), Head(items), base, from), Tail(items), base, from)

----------------------------------------------------------------------------
(* 6) generic fallback: the parsed tree is made of Node(fields), a sequence *)
(* of [key, v] in key order, of Arr(items) and of scalars                   *)

Node(fields) == [k |-> "node", fields |-> fields]

Field(key, v) == [key |-> key, v |-> v]

\* /(^|:)(loc|url|link|href|canonical|@href|@_href)$/i
urlKeyLike(key) == key \in {"loc", "url", "link", "href", "canonical", "xhtml:link", "@href", "@_href"}

\* /(^|:)(lastmod|updated|pubdate|date|modified|issued|created|time|timestamp|publication_date|...)$/i
dateKeyLike(key) == key \in {"lastmod", "updated", "pubdate", "pubDate", "date", "dc:date", "modified", "issued", "created", "time", "timestamp", "publication_date", "upload_date", "expiration_date", "release_date"}

\* /^(https?:)?\/\/|^[a-z]+:\/\/|^\/[A-Za-z0-9._~!$&'()*+,;=:@/%-]+/i on the string
urlLike(sv) == sv.k \in {"url", "rel", "bad"}

\* the five date shapes tested on the string
dateLike(sv) ==
  /\ sv.k = "str"
  /\ \/ sv.shape = "digits" /\ sv.len >= 9 /\ sv.len <= 13
     \/ sv.shape = "digits" /\ ~sv.neg /\ sv.len = 8
     \/ sv.shape = "unzoned"
     \/ sv.shape = "other" /\ isFinite(sv.dp)

\* the number of decimal digits of a natural number below 10^9
RECURSIVE Digits(_)
Digits(x) == IF x < 10 THEN 1 ELSE 1 + Digits(x \div 10)

\* |n|
Magnitude(n) == IF n.hi >= 0 THEN n ELSE IF n.lo = 0 THEN Num(0 - n.hi, 0) ELSE Num(0 - n.hi - 1, 1000000 - n.lo)

\* the length of the digits String(n) prints for an integer n
NumDigits(n) == IF Magnitude(n).hi = 0 THEN Digits(Magnitude(n).lo) ELSE 6 + Digits(Magnitude(n).hi)

\* String(v ?? "").trim()
StringOf(v) ==
  IF v.k \in {"absent", "null"} THEN EmptyStr
  ELSE IF v.k = "number" /\ v.n.k = "num" THEN DigitStr(v.n.hi < 0, NumDigits(v.n), v.n)
  ELSE IF v.k = "number" THEN OtherStr(NaN)
  ELSE v

IsObject(v) == v.k \in {"node", "arr", "obj"}

\* the scan of one node's scalars: found = [url, date]
RECURSIVE GenericScan(_, _)
GenericScan(scalars, found) ==
  IF scalars = <<>> THEN found
  ELSE LET key == Head(scalars).key
           sv == StringOf(Head(scalars).v)
           u == IF ~Truthy(found.url) /\ (urlKeyLike(key) \/ urlLike(sv)) THEN sv ELSE found.url
           d == IF ~Truthy(found.date) /\ (dateKeyLike(key) \/ dateLike(sv)) THEN sv ELSE found.date
       IN GenericScan(Tail(scalars), [url |-> u, date |-> d])

\* mutant: a node without a date-like scalar is emitted under a lower bound too
GenericNodeNoDate(st, node, base, from) ==
  LET scalars == SelectSeq(node.fields, LAMBDA f : ~(Truthy(f.v) /\ IsObject(f.v)))
      found == GenericScan(scalars, [url |-> Null, date |-> Null])
  IN IF ~Truthy(found.url) THEN st
     ELSE IF from.k = "null" THEN Emit(st, found.url, base, node, "generic")
     ELSE IF ~Truthy(found.date) THEN Emit(st, found.url, base, node, "generic")
     ELSE IF includeByFrom(toTs(found.date), from) THEN Emit(st, found.url, base, node, "generic")
     ELSE st

GenericNode(st, node, base, from) ==
  LET scalars == SelectSeq(node.fields, LAMBDA f : ~(Truthy(f.v) /\ IsObject(f.v)))
      found == GenericScan(scalars, [url |-> Null, date |-> Null])
  IN IF ~Truthy(found.url) THEN st
     ELSE IF from.k = "null" THEN Emit(st, found.url, base, node, "generic")
     ELSE IF ~Truthy(found.date) THEN st
     ELSE IF includeByFrom(toTs(found.date), from) THEN Emit(st, found.url, base, node, "generic")
     ELSE st

\* the values of a node that are objects, in key order
KidsOf(node) ==
  LET objs == SelectSeq(node.fields, LAMBDA f : Truthy(f.v) /\ IsObject(f.v))
  IN [i \in 1..Len(objs) |-> objs[i].v]

RECURSIVE Generic(_, _, _, _)
Generic(st, stack, base, from) ==
  IF stack = <<>> THEN st
  ELSE LET node == stack[Len(stack)]
           rest == SubSeq(stack, 1, Len(stack) - 1)
       IN IF ~Truthy(node) THEN Generic(st, rest, base, from)
          ELSE IF node.k = "arr" THEN Generic(st, rest \o node.items, base, from)
          ELSE IF node.k # "node" THEN Generic(st, rest, base, from)
          ELSE Generic(GenericNode(st, node, base, from), rest \o KidsOf(node), base, from)

----------------------------------------------------------------------------
(* One parsed document: root is the key the classifier finds, items the     *)
(* entries under it (already a list), tree the whole parsed tree as the     *)
(* generic fallback walks it.                                               *)

Data(root, items, tree) == [k |-> "data", root |-> root, items |-> items, tree |-> tree]

\* lines 125-381: the dialect dispatch on one parsed document
Extract(st, data, base, from, vis) ==
  IF data.root = "sitemapindex" /\ data.items # <<>> THEN SitemapIndex(st, data.items, base, vis)
  ELSE IF data.root = "urlset" /\ data.items # <<>> THEN UrlSet(st, data.items, base, from)
  ELSE IF data.root = "rss" THEN Rss(st, data.items, base, from)
  ELSE IF data.root = "feed" THEN Atom(st, data.items, base, from)
  ELSE IF data.root = "rdf" THEN Rdf(st, data.items, base, from)
  ELSE Generic(st, <<data.tree>>, base, from)

----------------------------------------------------------------------------
(* The transport: fetch(current) rejects, or resolves with a response       *)
(* [ok, url, body, data]: url the final URL it reports ("" for none), body  *)
(* what reading and decompressing the body gives ("fail": arrayBuffer()     *)
(* rejects; "gzbad": gzip bytes gunzipSync rejects; "gzip"; "xml"), data    *)
(* what parser.parse makes of the decoded text (Throw when it throws).      *)

Resp(ok, url, body, data) == [k |-> "resp", ok |-> ok, url |-> url, body |-> body, data |-> data]

\* the most fetch calls one run of the model makes
MaxFetches == 8

Init(urls, dates) ==
  /\ xmlUrl \in urls
  /\ fromDate \in dates
  /\ fromTs = Null
  /\ queue = <<>>
  /\ visited = {}
  /\ results = <<>>
  /\ seen = {}
  /\ current = Null
  /\ res = Null
  /\ pc = "start"
  /\ error = "none"
  /\ fetched = <<>>
  /\ served = <<>>
  /\ parsed = {}
  /\ acc = {}
  /\ calls = <<>>

\* mutant: the lower bound is not validated
ValidateNoCheck ==
  /\ pc = "start"
  /\ fromTs' = (IF Truthy(fromDate) THEN toTs(fromDate) ELSE Null)
  /\ queue' = <<xmlUrl>>
  /\ pc' = "loop"
  /\ UNCHANGED <<calls, xmlUrl, fromDate, visited, results, seen, current, res, error, fetched, served, parsed, acc>>

\* lines 73-88: the lower bound, then the queue holding the input
Validate ==
  /\ pc = "start"
  /\ IF Truthy(fromDate) /\ ~isFinite(toTs(fromDate))
     THEN /\ pc' = "rejected"
          /\ error' = "Invalid fromDate"
          /\ UNCHANGED <<fromTs, queue>>
     ELSE /\ fromTs' = (IF Truthy(fromDate) THEN toTs(fromDate) ELSE Null)
          /\ queue' = <<xmlUrl>>
          /\ pc' = "loop"
          /\ UNCHANGED error
  /\ UNCHANGED <<calls, xmlUrl, fromDate, visited, results, seen, current, res, fetched, served, parsed, acc>>

\* mutant: a string already visited is not dropped
SkipNever(cur, vis) == ~Truthy(cur)

\* if (!current || visited.has(current)) continue;
Skip(cur, vis) == ~Truthy(cur) \/ cur \in vis

\* mutant: the string popped is not added to visited
DequeueNoMark ==
  /\ pc = "loop"
  /\ queue # <<>>
  /\ Len(fetched) < MaxFetches
  /\ current' = queue[Len(queue)]
  /\ queue' = SubSeq(queue, 1, Len(queue) - 1)
  /\ IF Skip(current', visited)
     THEN UNCHANGED <<fetched, pc>>
     ELSE /\ fetched' = Append(fetched, current')
          /\ pc' = "fetch"
  /\ UNCHANGED <<calls, xmlUrl, fromDate, fromTs, visited, results, seen, res, error, served, parsed, acc>>

\* mutant: the queue is read from the front (first in, first out)
DequeueFifo ==
  /\ pc = "loop"
  /\ queue # <<>>
  /\ Len(fetched) < MaxFetches
  /\ current' = Head(queue)
  /\ queue' = Tail(queue)
  /\ IF Skip(current', visited)
     THEN UNCHANGED <<visited, fetched, pc>>
     ELSE /\ visited' = visited \cup {current'}
          /\ fetched' = Append(fetched, current')
          /\ pc' = "fetch"
  /\ UNCHANGED <<calls, xmlUrl, fromDate, fromTs, results, seen, res, error, served, parsed, acc>>

\* lines 90-97: pop, skip or mark visited and call fetch
Dequeue ==
  /\ pc = "loop"
  /\ queue # <<>>
  /\ Len(fetched) < MaxFetches
  /\ current' = queue[Len(queue)]
  /\ queue' = SubSeq(queue, 1, Len(queue) - 1)
  /\ IF Skip(current', visited)
     THEN UNCHANGED <<visited, fetched, pc>>
     ELSE /\ visited' = visited \cup {current'}
          /\ fetched' = Append(fetched, current')
          /\ pc' = "fetch"
  /\ UNCHANGED <<calls, xmlUrl, fromDate, fromTs, results, seen, res, error, served, parsed, acc>>

\* lines 90, 384: the queue is empty, return results
Return ==
  /\ pc = "loop"
  /\ queue = <<>>
  /\ pc' = "done"
  /\ UNCHANGED <<calls, xmlUrl, fromDate, fromTs, queue, visited, results, seen, current, res, error, fetched, served, parsed, acc>>

\* the most calls that return before the one observed
MaxCalls == 1

\* line 11: after a call returned, getSitemapUrls is called again for the same
\* xmlUrl with any fromDate; the site answers each URL as it did before
Again(dates) ==
  /\ pc = "done"
  /\ Len(calls) < MaxCalls
  /\ calls' = Append(calls, [fromTs |-> fromTs, results |-> results, fetched |-> fetched])
  /\ fromDate' \in dates
  /\ fromTs' = Null
  /\ queue' = <<>>
  /\ visited' = {}
  /\ results' = <<>>
  /\ seen' = {}
  /\ current' = Null
  /\ res' = Null
  /\ pc' = "start"
  /\ error' = "none"
  /\ fetched' = <<>>
  /\ parsed' = {}
  /\ acc' = {}
  /\ UNCHANGED <<xmlUrl, served>>

\* the responses the transport may give for target: the one it gave before, else any of rs
Answers(target, rs) ==
  IF target.k = "throw" THEN {Throw}
  ELSE IF \E i \in 1..Len(served) : served[i].url = target THEN {served[i].r : i \in {j \in 1..Len(served) : served[j].url = target}}
  ELSE rs

\* lines 96-101: await fetch(current) settles
FetchSettle(rs) ==
  /\ pc = "fetch"
  /\ \E r \in Answers(Normalize(current), rs) :
       /\ served' = (IF \E i \in 1..Len(served) : served[i].url = Normalize(current) THEN served ELSE Append(served, [url |-> Normalize(current), r |-> r]))
       /\ IF r.k = "throw" THEN pc' = "loop" /\ UNCHANGED res
          ELSE IF ~r.ok THEN pc' = "loop" /\ UNCHANGED res
          ELSE pc' = "body" /\ res' = r
  /\ UNCHANGED <<calls, xmlUrl, fromDate, fromTs, queue, visited, results, seen, current, error, fetched, parsed, acc>>

\* mutant: the base is the URL requested
BaseRequested(r, cur) == cur

\* const base = res.url || current;
Base(r, cur) == IF Truthy(r.url) THEN r.url ELSE cur

\* lines 103-382: await res.arrayBuffer() settles; gunzip, decode, parse, extract
BodySettle ==
  /\ pc = "body"
  /\ IF res.body = "fail"
     THEN /\ pc' = "rejected"
          /\ error' = "body"
          /\ UNCHANGED <<queue, results, seen, parsed, acc>>
     ELSE IF res.data.k = "throw"
     THEN /\ pc' = "loop"
          /\ UNCHANGED <<error, queue, results, seen, parsed, acc>>
     ELSE LET st == Extract(Acc(queue, results, seen, acc), res.data, Base(res, current), fromTs, visited)
          IN /\ queue' = st.queue
             /\ results' = st.results
             /\ seen' = st.seen
             /\ acc' = st.acc
             /\ parsed' = parsed \cup {[data |-> res.data, base |-> Base(res, current)]}
             /\ pc' = "loop"
             /\ UNCHANGED error
  /\ UNCHANGED <<calls, xmlUrl, fromDate, fromTs, visited, current, res, fetched, served>>

----------------------------------------------------------------------------
(* Inputs: URL strings, dates, documents *)

UA == AbsUrl("h", "/a", TRUE)

UB == AbsUrl("h", "/b", TRUE)

UC == AbsUrl("h", "/c", TRUE)

UP == AbsUrl("h", "/p", TRUE)

UQ == AbsUrl("h", "/q", TRUE)

\* "2000-01-01T00:00:00Z", "2022-01-01T00:00:00Z", "2023-01-01T00:00:00Z", "2023-06-01T00:00:00Z", "2024-01-01T00:00:00Z"
Iso2000 == OtherStr(Num(946684, 800000))

Iso2022 == OtherStr(Num(1640995, 200000))

Iso2023 == OtherStr(Num(1672531, 200000))

Iso2023June == OtherStr(Num(1685577, 600000))

Iso2024 == OtherStr(Num(1704067, 200000))

\* "not-a-date"
NotADate == OtherStr(NaN)

\* the input URLs: normalized, another spelling of the same URL, relative, unparseable, empty
XmlUrls == {UA, AbsUrl("h", "/a", FALSE), RelRef("/a"), BadRef, EmptyStr}

\* the lower bounds of the crawl: none, unparseable, one date
CrawlDates == {Absent, NotADate, Iso2023June}

NoTree == Node(<<>>)

IxE(loc, link, url) == [loc |-> loc, link |-> link, url |-> url]

UE(loc, lastmod, news, video, xh) == [loc |-> loc, lastmod |-> lastmod, news |-> news, video |-> video, xh |-> xh]

\* a url entry with a location only
Loc(loc) == UE(loc, <<Absent>>, <<Absent>>, <<Absent>>, Absent)

IndexDocs ==
  { Data("sitemapindex", <<IxE(UB, Absent, Absent), IxE(UC, Absent, Absent)>>, NoTree),
    Data("sitemapindex", <<IxE(RelRef("/a"), Absent, Absent), IxE(UB, Absent, Absent), IxE(UB, Absent, Absent)>>, NoTree),
    Data("sitemapindex", <<IxE(AbsUrl("h", "/a", FALSE), Absent, Absent), IxE(BadRef, Absent, Absent), IxE(Absent, RelRef("/c"), Absent), IxE(Absent, Absent, Absent)>>, NoTree),
    Data("sitemapindex", <<IxE(EmptyStr, EmptyStr, Obj(UA))>>, NoTree) }

UrlSetDocs ==
  { Data("urlset", <<Loc(UP), Loc(RelRef("/q"))>>, NoTree),
    Data("urlset", <<UE(UQ, <<Absent>>, <<Absent>>, <<Absent>>, LinkObj(Absent, UP)), Loc(Absent), Loc(BadRef)>>, NoTree),
    Data("urlset", <<UE(UP, <<Iso2023>>, <<Absent>>, <<Absent>>, Absent), UE(RelRef("/q"), <<Iso2024>>, <<Absent>>, <<Absent>>, Absent)>>, NoTree) }

FeedItem(link, dates) == [link |-> link, enclosure |-> Absent, guid |-> Absent, rsslink |-> Absent, about |-> Absent, dates |-> dates]

FeedDocs ==
  { Data("rss", <<FeedItem(UP, <<Iso2024>>), FeedItem(UP, <<Iso2022>>)>>, NoTree),
    Data("other", <<>>, Node(<<Field("item", Node(<<Field("href", RelRef("/p")), Field("when", Iso2024)>>))>>)) }

CrawlDocs == IndexDocs \cup UrlSetDocs \cup FeedDocs

\* what the transport may answer in the crawl
CrawlAnswers ==
  {Throw, Resp(FALSE, EmptyStr, "xml", Throw), Resp(TRUE, EmptyStr, "fail", Throw),
   Resp(TRUE, EmptyStr, "xml", Throw), Resp(TRUE, EmptyStr, "gzbad", Data("other", <<>>, NoTree))}
  \cup {Resp(TRUE, EmptyStr, "xml", d) : d \in CrawlDocs}
  \cup {Resp(TRUE, AbsUrl("g", "/a", TRUE), "gzip", d) : d \in IndexDocs \cup UrlSetDocs}

Next == Validate \/ Dequeue \/ Return \/ FetchSettle(CrawlAnswers) \/ BodySettle

Spec == Init(XmlUrls, CrawlDates) /\ [][Next]_vars

----------------------------------------------------------------------------
(* Single documents with every combination of date fields, under every      *)
(* shape of lower bound                                                     *)

\* 1685577600 (epoch seconds of 2023-06-01), 1685577600000, 999999999
Sec2023June == Num(1685, 577600)

Ms2023June == Num(1685577, 600000)

\* fromDate: undefined, null, "", unparseable values, and 2023-06-01 and earlier dates in each accepted shape
FromDates ==
  {Absent, Null, EmptyStr, NotADate, Number(NaN), DateObj(NaN), DigitStr(FALSE, 8, Num(20, 231301)),
   DateObj(Ms2023June), Number(Sec2023June), Number(Ms2023June), DigitStr(FALSE, 10, Sec2023June),
   DigitStr(FALSE, 13, Ms2023June), DigitStr(FALSE, 8, Num(20, 230601)), UnzonedStr(Ms2023June),
   Iso2023June, Iso2000, DigitStr(FALSE, 9, Num(999, 999999)), DigitStr(TRUE, 10, Num(-1686, 422400))}

\* the values of one date field of a document
DateVals == {Absent, NotADate, Iso2000, Iso2023, Iso2024, Number(Num(1700, 0))}

UrlEntries ==
  {UE(loc, <<lm>>, <<nw>>, <<vd>>, xh) : loc \in {UP, Absent}, lm \in DateVals, nw \in DateVals, vd \in DateVals, xh \in {Absent, LinkObj(Absent, UQ)}}
  \cup {UE(UP, <<Absent, EmptyStr, Iso2024>>, <<NotADate, Iso2023>>, <<Absent>>, Absent),
        UE(UP, <<Absent, Absent, Absent, Iso2024>>, <<Iso2000>>, <<Absent>>, Arr(<<LinkObj(Rel("self"), UQ), LinkObj(Rel("ALTERNATE"), RelRef("/c"))>>))}

RssItems ==
  {[link |-> l, enclosure |-> e, guid |-> g, dates |-> ds] :
     l \in {UP, Absent}, e \in {Absent, Enclosure(UQ)}, g \in {Absent, UC}, ds \in {<<d>> : d \in DateVals} \cup {<<NotADate, Iso2024>>, <<Iso2000, Iso2024>>}}

RdfItems ==
  {[link |-> l, rsslink |-> Absent, about |-> a, guid |-> g, dates |-> ds] :
     l \in {UP, EmptyStr}, a \in {Absent, UQ}, g \in {Absent, UC}, ds \in {<<d>> : d \in DateVals} \cup {<<Absent, Iso2024>>}}

AtomEntries ==
  {[link |-> l, dates |-> <<d>>] : l \in {Absent, UP, EmptyStr, LinkObj(Rel("self"), UQ), LinkObj(Absent, Absent)}, d \in DateVals}

\* generic trees: one node with a URL-like and a date-like scalar, a child node with its own URL and date
GenericTrees ==
  {Node(<<Field(uk, u), Field(dk, d), Field("child", Node(<<Field("href", cu), Field("date", cd)>>))>>) :
     uk \in {"loc", "id"}, u \in {UP, Absent}, dk \in {"lastmod", "note"}, d \in DateVals, cu \in {Absent, UQ}, cd \in {Absent, Iso2024}}

LeafDocs ==
  {Data("urlset", <<it>>, NoTree) : it \in UrlEntries}
  \cup {Data("rss", <<it>>, NoTree) : it \in RssItems}
  \cup {Data("rdf", <<it>>, NoTree) : it \in RdfItems}
  \cup {Data("feed", <<it>>, NoTree) : it \in AtomEntries}
  \cup {Data("other", <<>>, t) : t \in GenericTrees}

LeafAnswers == {Throw} \cup {Resp(TRUE, EmptyStr, "xml", d) : d \in LeafDocs}

NextLeaf == Validate \/ Dequeue \/ Return \/ FetchSettle(LeafAnswers) \/ BodySettle

LeafSpec == Init({UA}, FromDates) /\ [][NextLeaf]_vars

----------------------------------------------------------------------------
(* The same single documents under numeric lower bounds on both sides of    *)
(* the threshold 10^12, of either sign                                      *)

\* fromDate as a number or an all-digit string: 0, 999999999, 1685577600, 999999999999, 10^12,
\* 1685577600000, -1685577600, -2000000000000
EpochDates ==
  {Number(Num(0, 0)), DigitStr(FALSE, 9, Num(999, 999999)), Number(Sec2023June), DigitStr(FALSE, 10, Sec2023June),
   Number(Num(999999, 999999)), Number(Num(1000000, 0)), Number(Ms2023June), DigitStr(FALSE, 13, Ms2023June),
   Number(Num(-1686, 422400)), DigitStr(TRUE, 10, Num(-1686, 422400)),
   Number(Num(-2000000, 0)), DigitStr(TRUE, 13, Num(-2000000, 0))}

EpochSpec == Init({UA}, EpochDates) /\ [][NextLeaf]_vars

----------------------------------------------------------------------------
(* Atom entries whose link is a list of link objects *)

\* the longest list of links of an Atom entry
MaxLinks == 3

LinkObjs == {LinkObj(rel, href) : rel \in {Absent, Rel("alternate"), Rel("self")}, href \in {UP, UQ, UC, Absent}}

RECURSIVE SeqsUpTo(_, _)
SeqsUpTo(S, n) == IF n = 0 THEN {<<>>} ELSE SeqsUpTo(S, n - 1) \cup {Append(q, x) : q \in SeqsUpTo(S, n - 1), x \in S}

AtomDocs ==
  {Data("feed", <<[link |-> Arr(L), dates |-> <<Absent>>]>>, NoTree) : L \in SeqsUpTo(LinkObjs, MaxLinks)}
  \cup {Data("feed", <<[link |-> Arr(<<LinkObj(Rel("self"), UP), LinkObj(Rel("ALTERNATE"), RelRef("/q"))>>), dates |-> <<Iso2024>>]>>, NoTree)}

AtomAnswers == {Throw} \cup {Resp(TRUE, EmptyStr, "xml", d) : d \in AtomDocs}

NextAtom == Validate \/ Dequeue \/ Return \/ FetchSettle(AtomAnswers) \/ BodySettle

AtomSpec == Init({UA}, {Absent, Iso2023June}) /\ [][NextAtom]_vars

----------------------------------------------------------------------------
(* The crawl under fair scheduling: the event loop runs every step that is  *)
(* ready, and every await settles.                                          *)

LiveAnswers ==
  {Throw, Resp(FALSE, EmptyStr, "xml", Throw), Resp(TRUE, EmptyStr, "fail", Throw), Resp(TRUE, EmptyStr, "xml", Throw)}
  \cup {Resp(TRUE, EmptyStr, "xml", d) : d \in CrawlDocs}

NextLive == Validate \/ Dequeue \/ Return \/ FetchSettle(LiveAnswers) \/ BodySettle

LiveSpec ==
  /\ Init({UA, AbsUrl("h", "/a", FALSE), EmptyStr}, {Absent, NotADate})
  /\ [][NextLive]_vars
  /\ WF_vars(Validate) /\ WF_vars(Dequeue) /\ WF_vars(Return) /\ WF_vars(FetchSettle(LiveAnswers)) /\ WF_vars(BodySettle)

----------------------------------------------------------------------------
(* One site crawled twice, under two lower bounds *)

\* the lower bounds: none, 2022-01-01, 2023-06-01 (also as epoch seconds)
AgainDates == {Absent, Iso2022, Iso2023June, Number(Sec2023June)}

AgainDocs ==
  { Data("sitemapindex", <<IxE(UB, Absent, Absent), IxE(UC, Absent, Absent)>>, NoTree),
    Data("urlset", <<UE(UP, <<Iso2023>>, <<Absent>>, <<Absent>>, Absent), UE(RelRef("/q"), <<Iso2024>>, <<Absent>>, <<Absent>>, Absent)>>, NoTree),
    Data("urlset", <<UE(UQ, <<Absent>>, <<Absent>>, <<Iso2000>>, LinkObj(Absent, UC)), Loc(UA)>>, NoTree),
    Data("rss", <<FeedItem(UP, <<Iso2024>>), FeedItem(UB, <<Iso2022>>)>>, NoTree),
    Data("feed", <<[link |-> LinkObj(Absent, UC), dates |-> <<Iso2023>>]>>, NoTree),
    Data("other", <<>>, Node(<<Field("item", Node(<<Field("href", RelRef("/p")), Field("when", Iso2023)>>)), Field("loc", UQ)>>)) }

AgainAnswers == {Throw, Resp(FALSE, EmptyStr, "xml", Throw)} \cup {Resp(TRUE, EmptyStr, "xml", d) : d \in AgainDocs}

NextAgain == Validate \/ Dequeue \/ Return \/ FetchSettle(AgainAnswers) \/ BodySettle \/ Again(AgainDates)

AgainSpec == Init({UA}, AgainDates) /\ [][NextAgain]_vars

----------------------------------------------------------------------------
(* Properties *)

Range(q) == {q[i] : i \in 1..Len(q)}

NoDup(q) == \A i, j \in 1..Len(q) : i # j => q[i] # q[j]

IsAbsolute(u) == u.k = "url" /\ u.norm

\* C1: in every state of a traversal, and so in the list returned, the
\* result list holds no string twice and only absolute URLs, each the
\* resolution of an accepted candidate against its document's base.
C1_ResultsDistinctAbsolute ==
  /\ NoDup(results)
  /\ \A u \in Range(results) : IsAbsolute(u) /\ \E e \in acc : e.url = u /\ u = Resolve(u, e.base)
  /\ seen = Range(results)

\* a traversal returned two results or more after a second candidate for one of them was dropped
C1_Witness ==
  /\ pc = "done"
  /\ Len(results) >= 2
  /\ \E e1, e2 \in acc : e1 # e2 /\ e1.url = e2.url

\* C2: a fromDate that is provided and does not normalize to a finite
\* timestamp makes the call fail with the invalid-fromDate error before any
\* document is dequeued or fetched.
C2_InvalidFromDateRejects ==
  (pc # "start" /\ Truthy(fromDate) /\ ~isFinite(toTs(fromDate)))
    => /\ pc = "rejected"
       /\ error = "Invalid fromDate"
       /\ fetched = <<>>
       /\ served = <<>>
       /\ visited = {}
       /\ current = Null
       /\ results = <<>>

\* the call was rejected for "not-a-date"
C2_Witness == pc = "rejected" /\ error = "Invalid fromDate" /\ fromDate = NotADate /\ fetched = <<>>

\* C3: with every fetch settling, a traversal of a finite set of documents
\* ends, whatever cycles the sitemap indexes form: it returns with the queue
\* empty, unless the call rejects first.
C3_Terminates == <>((pc = "done" /\ queue = <<>>) \/ pc = "rejected")

\* the entries of a parsed sitemap index, resolved
IndexRefs(p) == {Resolve(SitemapLoc(it), p.base) : it \in {x \in Range(p.data.items) : Truthy(SitemapLoc(x))}}

\* a traversal returned after two indexes that refer to each other
C3_Witness ==
  /\ pc = "done"
  /\ queue = <<>>
  /\ \E p, q \in parsed :
       /\ p.data.root = "sitemapindex" /\ q.data.root = "sitemapindex"
       /\ p.base # q.base
       /\ q.base \in IndexRefs(p)
       /\ p.base \in IndexRefs(q)

\* C4: no document is fetched more than once in a traversal: no two fetch
\* calls ask for the same URL.
C4_FetchedOnce == \A i, j \in 1..Len(fetched) : i < j => Normalize(fetched[i]) # Normalize(fetched[j])

\* C5: a failure while one document is processed never rejects the call:
\* the only rejection is the invalid fromDate.
C5_OnlyFromDateRejects == pc = "rejected" => error = "Invalid fromDate"


\* the first finite timestamp of a sequence of timestamps
RECURSIVE FirstFinite(_)
FirstFinite(ts) == IF ts = <<>> THEN NaN ELSE IF isFinite(Head(ts)) THEN Head(ts) ELSE FirstFinite(Tail(ts))

\* the best timestamp of a url entry: the normalized lastmod field, then the
\* News timestamp, then the Video timestamp
BestTs(it) == FirstFinite(<<toTs(NullishChain(it.lastmod)), firstTs(it.news), firstTs(it.video)>>)

\* ts is finite and on or after the lower bound
OnOrAfter(ts, from) == isFinite(ts) /\ Geq(ts, from)

\* the code accepted a candidate of entry it of the document with base b
Accepted(it, b, via) == \E e \in acc : e.it = it /\ e.base = b /\ e.via = via

\* C6: with a lower bound active, the primary location of a url entry is
\* accepted if and only if the entry has a location and its best timestamp
\* is finite and on or after the bound.
C6_PrimaryIffBestTsQualifies ==
  \A p \in parsed :
    (fromTs # Null /\ p.data.root = "urlset") =>
      \A it \in Range(p.data.items) :
        Accepted(it, p.base, "loc") <=> (Truthy(it.loc) /\ Resolve(it.loc, p.base).k = "url" /\ OnOrAfter(BestTs(it), fromTs))

\* the timestamp the date filter is to compare, for an accepted candidate
EntryTs(e) ==
  IF e.via \in {"loc", "alt"} THEN BestTs(e.it)
  ELSE IF e.via = "link" THEN firstTs(e.it.dates)
  ELSE toTs(GenericScan(SelectSeq(e.it.fields, LAMBDA f : ~(Truthy(f.v) /\ IsObject(f.v))), [url |-> Null, date |-> Null]).date)

\* the location of an entry of a parsed document, by dialect
LocationOf(root, it) ==
  IF root = "urlset" THEN it.loc
  ELSE IF root = "rss" THEN RssLink(it)
  ELSE IF root = "feed" THEN AtomLink(it)
  ELSE RdfLink(it)

\* the object nodes of a parsed tree
RECURSIVE NodesOf(_)
NodesOf(v) ==
  IF v.k = "arr" THEN UNION {NodesOf(x) : x \in Range(v.items)}
  ELSE IF v.k = "node" THEN {v} \cup UNION {NodesOf(f.v) : f \in Range(v.fields)}
  ELSE {}

\* the scalars of a node and the URL-like value found among them
ScalarsOf(node) == SelectSeq(node.fields, LAMBDA f : ~(Truthy(f.v) /\ IsObject(f.v)))

UrlOfNode(node) == GenericScan(ScalarsOf(node), [url |-> Null, date |-> Null]).url

\* the entries of a parsed document that carry a location, each with that location
Located(p) ==
  IF p.data.root \in {"urlset", "rss", "feed", "rdf"} /\ (p.data.root \in {"rss", "feed", "rdf"} \/ p.data.items # <<>>)
  THEN {[it |-> it, loc |-> LocationOf(p.data.root, it)] : it \in Range(p.data.items)}
  ELSE IF p.data.root = "sitemapindex" /\ p.data.items # <<>> THEN {}
  ELSE {[it |-> n, loc |-> UrlOfNode(n)] : n \in NodesOf(p.data.tree)}

\* C7: in every dialect, with a lower bound active no candidate is accepted
\* for an entry without a parseable date or dated before the bound; with no
\* lower bound every entry that has a location is accepted.
C7_FilterInEveryDialect ==
  /\ fromTs # Null => \A e \in acc : OnOrAfter(EntryTs(e), fromTs)
  /\ fromTs = Null =>
       \A p \in parsed : \A x \in Located(p) :
         (Truthy(x.loc) /\ Resolve(x.loc, p.base).k = "url")
           => \E e \in acc : e.it = x.it /\ e.base = p.base /\ e.url = Resolve(x.loc, p.base)

\* C9: normalization is idempotent on its output: the finite timestamp of a
\* value, passed again as a bare number, normalizes to itself.
C9_NormalizeIdempotent == (pc # "start" /\ isFinite(toTs(fromDate))) => toTs(Number(toTs(fromDate))) = toTs(fromDate)


\* a response that was read and parsed as a document with this root
IsDoc(r, root) == r.k = "resp" /\ r.ok /\ r.body # "fail" /\ r.data.k = "data" /\ r.data.root = root /\ r.data.items # <<>>

\* the traversal returned, no lower bound, the input is a sitemap index and
\* every other document requested is a url-set that was fetched and parsed
C8_IndexOfUrlSets ==
  /\ pc = "done"
  /\ fromTs = Null
  /\ Len(served) >= 2
  /\ IsDoc(served[1].r, "sitemapindex")
  /\ \A i \in 2..Len(served) : IsDoc(served[i].r, "urlset")

\* the children the index names, resolved against its base
C8_Children == IndexRefs([data |-> served[1].r.data, base |-> Base(served[1].r, fetched[1])]) \ {Throw}

\* the url entries of the children, each with its document's base
C8_Entries == UNION {{[it |-> it, base |-> Base(served[i].r, served[i].url)] : it \in Range(served[i].r.data.items)} : i \in 2..Len(served)}

\* the resolved locations of the url entries of the children
C8_Locations == {Resolve(x.it.loc, x.base) : x \in {y \in C8_Entries : Truthy(y.it.loc)}} \ {Throw}

\* the alternate links of a url entry that carry an href and whose rel is absent or alternate
AlternateHrefs(it) ==
  {l.href : l \in {m \in Range(LinksOf(it.xh)) : m.k = "obj" /\ Truthy(m.href) /\ (m.rel.k \in {"absent", "null"} \/ (m.rel.k = "text" /\ toLowerCase(m.rel.v) = "alternate"))}}

\* the resolved alternate links of the url entries of the children that have a location
C8_Alternates == UNION {{Resolve(h, x.base) : h \in AlternateHrefs(x.it)} : x \in {y \in C8_Entries : Truthy(y.it.loc)}} \ {Throw}

\* C8 as stated: for a sitemap index whose children are all fetched
\* url-sets, a traversal with no lower bound fetches every child and returns
\* exactly the deduplicated union of the resolved locations of their entries.
C8_UnionOfLocations ==
  C8_IndexOfUrlSets => (C8_Children \subseteq {served[i].url : i \in 1..Len(served)} /\ NoDup(results) /\ Range(results) = C8_Locations)

\* C8: for a sitemap index whose children are all fetched url-sets, a
\* traversal with no lower bound fetches every child and returns exactly the
\* deduplicated union of the resolved locations of their entries and of the
\* resolved alternate links of those entries that have a location.
C8_UnionOfLocationsAndAlternates ==
  C8_IndexOfUrlSets => (C8_Children \subseteq {served[i].url : i \in 1..Len(served)} /\ NoDup(results) /\ Range(results) = C8_Locations \cup C8_Alternates)

\* an index with two url-set children was traversed; one location occurs in both and an alternate link is no location
C8_Witness ==
  /\ C8_IndexOfUrlSets
  /\ Len(served) = 3
  /\ Cardinality(C8_Children) = 2
  /\ C8_Alternates \ C8_Locations # {}
  /\ \E x, y \in C8_Entries : x.base # y.base /\ Truthy(x.it.loc) /\ Truthy(y.it.loc) /\ Resolve(x.it.loc, x.base) = Resolve(y.it.loc, y.base)


\* the relation of a link is alternate, as written or by default
IsAlternate(l) == l.rel.k \in {"absent", "null", "empty"} \/ (l.rel.k = "text" /\ toLowerCase(l.rel.v) = "alternate")

HasHref(l) == Truthy(l.href)

\* the least index of L that satisfies P
FirstIndex(L, P(_)) == CHOOSE i \in 1..Len(L) : P(L[i]) /\ \A j \in 1..(i - 1) : ~P(L[j])

\* the href of the first link whose relation is alternate, else of the first link
FirstAlternateElseFirst(L) ==
  IF \E i \in 1..Len(L) : IsAlternate(L[i]) THEN L[FirstIndex(L, IsAlternate)].href
  ELSE IF L # <<>> THEN L[1].href
  ELSE Absent

\* the href of the first link that is alternate and carries an href, else the first href of the list
FirstAlternateHrefElseFirstHref(L) ==
  IF \E i \in 1..Len(L) : IsAlternate(L[i]) /\ HasHref(L[i]) THEN L[FirstIndex(L, LAMBDA l : IsAlternate(l) /\ HasHref(l))].href
  ELSE IF \E i \in 1..Len(L) : HasHref(L[i]) THEN L[FirstIndex(L, HasHref)].href
  ELSE Absent

\* what the code did with Atom entry it of the document with base b is to select sel:
\* the one candidate accepted for the entry is sel resolved, none when sel is no link
SelectedIs(it, b, sel) ==
  IF Truthy(sel) /\ Resolve(sel, b).k = "url"
  THEN {e.url : e \in {x \in acc : x.it = it /\ x.base = b}} = {Resolve(sel, b)}
  ELSE \A e \in acc : ~(e.it = it /\ e.base = b)

\* the Atom entries parsed whose link is a list and whose date passes the filter
AtomListEntries == UNION {{[it |-> it, base |-> p.base] : it \in {x \in Range(p.data.items) : x.link.k = "arr" /\ includeByFrom(firstTs(x.dates), fromTs)}} : p \in {q \in parsed : q.data.root = "feed"}}

\* C10 as stated: the link selected from a list is the href of the first
\* link whose relation is alternate (the default relation), else the href of
\* the first link.
C10_FirstAlternateElseFirst == \A x \in AtomListEntries : SelectedIs(x.it, x.base, FirstAlternateElseFirst(x.it.link.items))

\* C10: the link selected from a list is the href of the first link that is
\* alternate (the default relation) and carries an href; without such a link
\* it is the first href of the list.
C10_FirstAlternateHref == \A x \in AtomListEntries : SelectedIs(x.it, x.base, FirstAlternateHrefElseFirstHref(x.it.link.items))

\* the list self, alternate, alternate was parsed and its second link selected
C10_Witness ==
  \E e \in acc :
    /\ e.it.link = Arr(<<LinkObj(Rel("self"), UP), LinkObj(Rel("alternate"), UQ), LinkObj(Rel("alternate"), UC)>>)
    /\ e.url = UQ
    /\ e.via = "link"

\* q is a prefix of r
IsPrefix(q, r) == Len(q) <= Len(r) /\ SubSeq(r, 1, Len(q)) = q

\* C11: the result list is append-only and keeps first-seen order: in every
\* step of a traversal the list before the step is a prefix of the list after
\* it, so no later document moves or removes a URL already in the list.
C11_ResultsAppendOnly == [][IsPrefix(results, results')]_vars

\* a traversal returned two results or more, the first of which a later document yielded again
C11_Witness ==
  /\ pc = "done"
  /\ Len(results) >= 2
  /\ \E e1, e2 \in acc : e1.base # e2.base /\ e1.url = results[1] /\ e2.url = results[1]

\* the last element of a non-empty sequence, and the rest
Last(q) == q[Len(q)]

Front(q) == SubSeq(q, 1, Len(q) - 1)

IsEpoch(v) == (v.k = "number" /\ isFinite(v.n)) \/ (v.k = "str" /\ v.shape = "digits" /\ v.len >= 9 /\ v.len <= 13)

\* C13: a numeric lower bound v (a number, or an all-digit string of 9 to 13
\* digits) normalizes to v * 1000 when |v| < 10^12 and to v when
\* |v| >= 10^12.
C13_ScaledByMagnitude ==
  (pc \notin {"start", "rejected"} /\ IsEpoch(fromDate)) =>
    fromTs = (IF Magnitude(fromDate.n).hi < 1000000 THEN Times1000(fromDate.n) ELSE fromDate.n)

\* the step processes the body of a response that parsed as a sitemap index
IndexStep == pc = "body" /\ pc' = "loop" /\ res.data.k = "data" /\ res.data.root = "sitemapindex" /\ res.data.items # <<>>

\* the final URL the response reports, else the URL requested
FinalUrl(r, requested) == IF r.url.k = "url" THEN r.url ELSE requested

\* the entry has a location that resolves against base to a string not in vis
Pushable(it, base, vis) == Truthy(SitemapLoc(it)) /\ Resolve(SitemapLoc(it), base).k = "url" /\ Resolve(SitemapLoc(it), base) \notin vis

\* the resolved locations of the pushable entries, in document order
Pushes(items, base, vis) ==
  LET sel == SelectSeq(items, LAMBDA it : Pushable(it, base, vis))
  IN [i \in 1..Len(sel) |-> Resolve(SitemapLoc(sel[i]), base)]

\* C14: processing a sitemap index leaves the result list and its dedup set
\* unchanged; it only pushes onto the queue, in document order, the resolved
\* location of each entry that has a resolvable location not in the visited
\* set, the other entries being skipped.
C14_IndexOnlyPushes ==
  [][IndexStep =>
       /\ results' = results
       /\ seen' = seen
       /\ acc' = acc
       /\ visited' = visited
       /\ queue' = queue \o Pushes(res.data.items, FinalUrl(res, current), visited)]_vars

\* the index at /a was processed: its entries are /a again (visited), an
\* unresolvable location, /c and an entry without location; only /c was pushed
C14_Witness ==
  /\ pc = "loop"
  /\ current = UA
  /\ res.k = "resp" /\ res.data.k = "data" /\ res.data.root = "sitemapindex"
  /\ res.data.items = <<IxE(AbsUrl("h", "/a", FALSE), Absent, Absent), IxE(BadRef, Absent, Absent), IxE(Absent, RelRef("/c"), Absent), IxE(Absent, Absent, Absent)>>
  /\ [data |-> res.data, base |-> UA] \in parsed
  /\ queue = <<UC>>
  /\ results = <<>>

\* link l of a url entry is an alternate link that carries href: its relation is alternate or unspecified
IsUrlAlternate(l) == l.k = "obj" /\ Truthy(l.href) /\ (l.rel.k \in {"absent", "null"} \/ (l.rel.k = "text" /\ toLowerCase(l.rel.v) = "alternate"))

\* C15: an alternate link of a url entry is accepted only if its relation is
\* alternate or unspecified, it carries an href, the parent entry has a
\* location and the parent's best timestamp satisfies the inclusion
\* predicate.
C15_AlternateOnlyIfParentQualifies ==
  \A e \in acc :
    e.via = "alt" =>
      /\ \E l \in Range(LinksOf(e.it.xh)) : IsUrlAlternate(l) /\ Resolve(l.href, e.base) = e.url
      /\ Truthy(e.it.loc)
      /\ includeByFrom(BestTs(e.it), fromTs)
      /\ e.url \in Range(results)

\* the document was handed to the generic fallback
IsGeneric(data) == data.root \notin {"rss", "feed", "rdf"} /\ ~(data.root \in {"sitemapindex", "urlset"} /\ data.items # <<>>)

\* a scalar of a node that is URL-like, date-like: by its key or by its text
UrlScalar(f) == urlKeyLike(f.key) \/ urlLike(StringOf(f.v))

DateScalar(f) == dateKeyLike(f.key) \/ dateLike(StringOf(f.v))

\* the text of the first URL-like scalar of a node that is not empty, Absent without one
FirstUrlOf(node) ==
  LET sel == SelectSeq(ScalarsOf(node), LAMBDA f : UrlScalar(f) /\ Truthy(StringOf(f.v)))
  IN IF sel = <<>> THEN Absent ELSE StringOf(sel[1].v)

\* C16: in the generic fallback inclusion is decided per node: what is
\* accepted for a node is a URL-like scalar of that node; with a lower bound
\* active it is accepted only if a date-like scalar of the same node
\* normalizes to a finite timestamp on or after the bound; with no lower
\* bound the URL-like scalar of every node is accepted.
C16_GenericPerNode ==
  /\ \A e \in acc :
       e.via = "generic" =>
         /\ \E f \in Range(ScalarsOf(e.it)) : UrlScalar(f) /\ Resolve(StringOf(f.v), e.base) = e.url
         /\ fromTs # Null => \E f \in Range(ScalarsOf(e.it)) : DateScalar(f) /\ OnOrAfter(toTs(StringOf(f.v)), fromTs)
  /\ fromTs = Null =>
       \A p \in parsed :
         IsGeneric(p.data) =>
           \A n \in NodesOf(p.data.tree) :
             Resolve(FirstUrlOf(n), p.base).k = "url" =>
               \E e \in acc : e.via = "generic" /\ e.it = n /\ e.base = p.base /\ e.url = Resolve(FirstUrlOf(n), p.base)

\* under a lower bound a node with a URL and no date of its own has a child
\* with a URL dated after the bound: the child's URL alone was returned
C16_Witness ==
  /\ pc = "done"
  /\ fromTs # Null
  /\ \E p \in parsed :
       p.data.tree = Node(<<Field("loc", UP), Field("note", Absent), Field("child", Node(<<Field("href", UQ), Field("date", Iso2024)>>))>>)
  /\ results = <<UQ>>

\* the references document data holds for the entry of an accepted candidate e
RefsOf(e) ==
  IF e.via = "loc" THEN {e.it.loc}
  ELSE IF e.via = "alt" THEN {l.href : l \in {x \in Range(LinksOf(e.it.xh)) : x.k = "obj"}}
  ELSE IF e.via = "generic" THEN {StringOf(f.v) : f \in Range(ScalarsOf(e.it))}
  ELSE {e.it.link} \cup (IF e.it.link.k = "arr" THEN {l.href : l \in Range(e.it.link.items)} ELSE {}) \cup (IF e.it.link.k = "obj" THEN {e.it.link.href} ELSE {})

\* the responses served that carry document data, each with the final URL
\* it reports, else the string that was requested
FinalBases(data) ==
  UNION {{FinalUrl(served[i].r, f) : f \in {g \in Range(fetched) : Normalize(g) = served[i].url}} :
           i \in {j \in 1..Len(served) : served[j].r.k = "resp" /\ served[j].r.ok /\ served[j].r.data = data}}

\* C17: every reference found in a document is resolved against the final
\* URL the transport reports for that document, and against the URL
\* requested only when none is reported: this holds of every candidate
\* accepted and of every child of a sitemap index that is queued or visited.
C17_ResolvedAgainstFinalUrl ==
  /\ \A p \in parsed : p.base \in FinalBases(p.data)
  /\ \A e \in acc : \E p \in parsed : \E b \in FinalBases(p.data) : \E ref \in RefsOf(e) :
       e.base = b /\ e.url = Resolve(ref, b)
  /\ \A u \in Range(queue) \cup visited :
       u = xmlUrl \/ \E p \in parsed : \E b \in FinalBases(p.data) : p.data.root = "sitemapindex" /\ u \in IndexRefs([data |-> p.data, base |-> b])

\* /a was requested on host h and answered from host g: the relative
\* location /q of its url-set was returned on host g
C17_Witness ==
  /\ pc = "done"
  /\ fetched = <<UA>>
  /\ served[1].r.k = "resp" /\ served[1].r.url = AbsUrl("g", "/a", TRUE)
  /\ AbsUrl("g", "/q", TRUE) \in Range(results)
  /\ AbsUrl("h", "/q", TRUE) \notin Range(results)

\* the strings the code ever tested for a push: the input, and the resolved
\* location of every entry of every sitemap index processed
Discovered ==
  (IF Truthy(xmlUrl) THEN {xmlUrl} ELSE {})
    \cup UNION {IndexRefs(p) \ {Throw} : p \in {q \in parsed : q.data.root = "sitemapindex" /\ q.data.items # <<>>}}

\* C18: every string pushed onto the queue is still in the queue or in the
\* visited set, the visited set is the set of strings fetched, and no string
\* is fetched twice (a later copy in the queue is dropped when popped); so
\* when the traversal returns the queue is empty and every document
\* discovered was dequeued and its fetch attempted.
C18_AllPushedVisited ==
  /\ visited = Range(fetched)
  /\ NoDup(fetched)
  /\ (pc # "start" /\ error # "Invalid fromDate") => Discovered \subseteq visited \cup Range(queue)
  /\ pc = "done" => (queue = <<>> /\ Discovered \subseteq visited)

\* the index at /a names /b twice: the traversal returned with /b fetched once
C18_Witness ==
  /\ pc = "done"
  /\ Len(fetched) >= 2
  /\ fetched[1] = UA
  /\ served[1].r.k = "resp"
  /\ served[1].r.data = Data("sitemapindex", <<IxE(RelRef("/a"), Absent, Absent), IxE(UB, Absent, Absent), IxE(UB, Absent, Absent)>>, NoTree)
  /\ Cardinality({i \in 1..Len(fetched) : fetched[i] = UB}) = 1

\* lower bound a is no later than lower bound b; no bound is below every bound
NoLater(a, b) == a = Null \/ (b # Null /\ Geq(b, a))

\* C19: for one site, the date filter is monotone: a call returns a subset
\* of what a call with an earlier lower bound, or with none, returns, and
\* both calls fetch the same documents.
C19_FilterMonotone ==
  pc = "done" =>
    \A i \in 1..Len(calls) :
      /\ NoLater(calls[i].fromTs, fromTs) => Range(results) \subseteq Range(calls[i].results)
      /\ NoLater(fromTs, calls[i].fromTs) => Range(calls[i].results) \subseteq Range(results)
      /\ Range(fetched) = Range(calls[i].fetched)

\* an index with two children was crawled under 2022-01-01, then under
\* 2023-06-01: the second call returned less, and something
C19_Witness ==
  /\ pc = "done"
  /\ Len(calls) = 1
  /\ calls[1].fromTs = toTs(Iso2022)
  /\ fromTs = toTs(Iso2023June)
  /\ Len(fetched) = 3
  /\ results # <<>>
  /\ Range(results) # Range(calls[1].results)

====
